---- MODULE Spec2Model ----
(***************************************************************************)
(* deep-configs-merge: the recursive merge of a base JSON document with an *)
(* ordered list of override documents (deepMerge, deepEqual, countKeys),   *)
(* and the orchestration around it (mergeConfigs, the CLI's main).         *)
(*                                                                         *)
(* JSON values are tagged records.  An object is a function over Keys      *)
(* whose value at a key it does not own is Undefined, which is what        *)
(* obj[key] evaluates to in JavaScript; a parsed JSON document never holds *)
(* undefined as a value, so the own keys of an object are exactly the keys *)
(* mapped to something else.  Keys are ordinary property names: names that *)
(* Object.prototype defines (__proto__, constructor, hasOwnProperty, ...)  *)
(* are outside this model.  Key order is not modelled.  A document is a    *)
(* record: files that parse to null, a scalar or an array are not drawn.   *)
(***************************************************************************)
EXTENDS Integers, Sequences, FiniteSets, TLC

(* ------------------------------ bounds -------------------------------- *)

\* Largest number of nodes (keys plus array elements, at every depth) of a
\* document handed to deepMerge in PairSpec.
MaxSize == 2

\* The same for the three documents of FoldSpec.
FoldSize == 2

\* The same for the documents in the files mergeConfigs reads in Spec.
FileSize == 1

\* The same for the two values handed to deepEqual in EqSpec.
EqSize == 2

\* Largest number of override paths handed to mergeConfigs in Spec.
MaxOverrides == 2

(* --------------------------- JSON values ------------------------------ *)

Keys == {"a", "b"}

KeySeq == <<"a", "b">>

Undefined == [t |-> "undefined"]

Null == [t |-> "null"]

Num(n) == [t |-> "num", v |-> n]

Arr(s) == [t |-> "arr", v |-> s]

Obj(f) == [t |-> "obj", v |-> f]

\* {} : no own key
NoFields == [k \in Keys |-> Undefined]

EmptyObj == Obj(NoFields)

\* Object.keys(obj)
ObjectKeys(obj) == {k \in Keys : obj.v[k] # Undefined}

\* obj with its own key k removed
Without(obj, k) == Obj([obj.v EXCEPT ![k] = Undefined])

\* the JavaScript typeof operator
TypeOf(x) ==
    CASE x.t = "undefined" -> "undefined"
      [] x.t = "num" -> "number"
      [] OTHER -> "object"

\* Array.isArray
IsArray(x) == x.t = "arr"

(* All values of at most n nodes over the scalars sc, with arrays when ar. *)
RECURSIVE Vals(_, _, _), ArrSeqs(_, _, _), Fields(_, _, _, _)
Fields(sc, ar, i, n) ==
    IF i > Len(KeySeq) THEN {NoFields}
    ELSE Fields(sc, ar, i + 1, n) \cup
         UNION {{[r EXCEPT ![KeySeq[i]] = x] :
                    x \in Vals(sc, ar, j), r \in Fields(sc, ar, i + 1, n - 1 - j)} :
                j \in 0..(n - 1)}

ArrSeqs(sc, ar, n) ==
    IF ~ar THEN {}
    ELSE {<<>>} \cup
         UNION {{<<x>> \o s : x \in Vals(sc, ar, j), s \in ArrSeqs(sc, ar, n - 1 - j)} :
                j \in 0..(n - 1)}

Vals(sc, ar, n) ==
    sc \cup {Arr(s) : s \in ArrSeqs(sc, ar, n)} \cup {Obj(f) : f \in Fields(sc, ar, 1, n)}

Recs(sc, ar, n) == {Obj(f) : f \in Fields(sc, ar, 1, n)}

\* the documents of PairSpec: null, a number, arrays, nested records
PairDocs == Recs({Null, Num(1)}, TRUE, MaxSize)

\* the documents of FoldSpec: a number and nested records
FoldDocs == Recs({Num(1)}, FALSE, FoldSize)

\* the documents of Spec
FileDocs == Recs({Num(1)}, FALSE, FileSize)

\* the values of EqSpec, and absent
EqVals == Vals({Null, Num(1), Num(2)}, TRUE, EqSize) \cup {Undefined}

(* ------------------------- the merge engine --------------------------- *)

\* isPlainObject
isPlainObject(obj) == obj.t = "obj"

RECURSIVE SumOver(_, _)
SumOver(f, S) ==
    IF S = {} THEN 0
    ELSE LET k == CHOOSE x \in S : TRUE IN f[k] + SumOver(f, S \ {k})

RECURSIVE countKeys(_)
countKeys(obj) ==
    SumOver([key \in Keys |->
                IF obj.v[key] = Undefined THEN 0
                ELSE 1 + (IF isPlainObject(obj.v[key]) THEN countKeys(obj.v[key]) ELSE 0)],
            Keys)

\* val1 === val2.  On composite values === is reference identity; the model
\* holds no references, and takes two composite values to be distinct
\* objects: deepEqual then compares them structurally, and an object
\* compared with itself comes out equal that way too (DeepEqualStructural).
StrictEq(val1, val2) ==
    /\ val1.t \in {"undefined", "null", "num"}
    /\ val1 = val2

RECURSIVE deepEqual(_, _)
\* deepEqual without its two length checks
deepEqualNoLength(val1, val2) ==
    IF StrictEq(val1, val2) THEN TRUE
    ELSE IF val1 = Null \/ val2 = Null THEN FALSE
    ELSE IF TypeOf(val1) # TypeOf(val2) THEN FALSE
    ELSE IF IsArray(val1) /\ IsArray(val2) THEN
        \A idx \in 1..Len(val1.v) :
            deepEqual(val1.v[idx], IF idx <= Len(val2.v) THEN val2.v[idx] ELSE Undefined)
    ELSE IF isPlainObject(val1) /\ isPlainObject(val2) THEN
        \A key \in ObjectKeys(val1) : deepEqual(val1.v[key], val2.v[key])
    ELSE FALSE

deepEqual(val1, val2) ==
    IF StrictEq(val1, val2) THEN TRUE
    ELSE IF val1 = Null \/ val2 = Null THEN FALSE
    ELSE IF TypeOf(val1) # TypeOf(val2) THEN FALSE
    ELSE IF IsArray(val1) /\ IsArray(val2) THEN
        IF Len(val1.v) # Len(val2.v) THEN FALSE
        ELSE \A idx \in 1..Len(val1.v) : deepEqual(val1.v[idx], val2.v[idx])
    ELSE IF isPlainObject(val1) /\ isPlainObject(val2) THEN
        IF Cardinality(ObjectKeys(val1)) # Cardinality(ObjectKeys(val2)) THEN FALSE
        ELSE \A key \in ObjectKeys(val1) : deepEqual(val1.v[key], val2.v[key])
    ELSE FALSE

\* deepMerge of part_001: the merged record and the number of changes
RECURSIVE deepMerge(_, _)
\* deepMerge keeping the base's value where the base owns the key
deepMergeBaseWins(baseObj, overrideObj) ==
    LET at(key) ==
            IF overrideObj.v[key] = Undefined \/ baseObj.v[key] # Undefined
            THEN [result |-> baseObj.v[key], mergeCount |-> 0]
            ELSE [result |-> overrideObj.v[key], mergeCount |-> 1]
    IN  [result |-> Obj([key \in Keys |-> at(key).result]),
         mergeCount |-> SumOver([key \in Keys |-> at(key).mergeCount], Keys)]

\* deepMerge without the recursion into two records
deepMergeShallow(baseObj, overrideObj) ==
    LET at(key) ==
            IF overrideObj.v[key] = Undefined
            THEN [result |-> baseObj.v[key], mergeCount |-> 0]
            ELSE [result |-> overrideObj.v[key],
                  mergeCount |-> IF deepEqual(baseObj.v[key], overrideObj.v[key])
                                 THEN 0 ELSE 1]
    IN  [result |-> Obj([key \in Keys |-> at(key).result]),
         mergeCount |-> SumOver([key \in Keys |-> at(key).mergeCount], Keys)]

\* deepMerge counting every replaced key, equal or not
deepMergeCountAlways(baseObj, overrideObj) ==
    LET at(key) ==
            IF overrideObj.v[key] = Undefined
            THEN [result |-> baseObj.v[key], mergeCount |-> 0]
            ELSE IF isPlainObject(overrideObj.v[key]) /\ isPlainObject(baseObj.v[key])
            THEN deepMerge(baseObj.v[key], overrideObj.v[key])
            ELSE [result |-> overrideObj.v[key], mergeCount |-> 1]
    IN  [result |-> Obj([key \in Keys |-> at(key).result]),
         mergeCount |-> SumOver([key \in Keys |-> at(key).mergeCount], Keys)]

\* deepMerge whose result starts empty instead of as a copy of the base
deepMergeDropsBase(baseObj, overrideObj) ==
    LET at(key) ==
            IF overrideObj.v[key] = Undefined
            THEN [result |-> Undefined, mergeCount |-> 0]
            ELSE IF isPlainObject(overrideObj.v[key]) /\ isPlainObject(baseObj.v[key])
            THEN deepMerge(baseObj.v[key], overrideObj.v[key])
            ELSE [result |-> overrideObj.v[key],
                  mergeCount |-> IF deepEqual(baseObj.v[key], overrideObj.v[key])
                                 THEN 0 ELSE 1]
    IN  [result |-> Obj([key \in Keys |-> at(key).result]),
         mergeCount |-> SumOver([key \in Keys |-> at(key).mergeCount], Keys)]

\* deepMerge taking an absent base value for {} under an override record
deepMergeRecursesIntoAbsent(baseObj, overrideObj) ==
    LET baseAt(key) ==
            IF baseObj.v[key] = Undefined /\ isPlainObject(overrideObj.v[key])
            THEN EmptyObj ELSE baseObj.v[key]
        at(key) ==
            IF overrideObj.v[key] = Undefined
            THEN [result |-> baseObj.v[key], mergeCount |-> 0]
            ELSE IF isPlainObject(overrideObj.v[key]) /\ isPlainObject(baseAt(key))
            THEN deepMerge(baseAt(key), overrideObj.v[key])
            ELSE [result |-> overrideObj.v[key],
                  mergeCount |-> IF deepEqual(baseObj.v[key], overrideObj.v[key])
                                 THEN 0 ELSE 1]
    IN  [result |-> Obj([key \in Keys |-> at(key).result]),
         mergeCount |-> SumOver([key \in Keys |-> at(key).mergeCount], Keys)]

deepMerge(baseObj, overrideObj) ==
    LET at(key) ==
            \* a key the override does not own: the copy of the base's entry
            IF overrideObj.v[key] = Undefined
            THEN [result |-> baseObj.v[key], mergeCount |-> 0]
            ELSE IF isPlainObject(overrideObj.v[key]) /\ isPlainObject(baseObj.v[key])
            THEN deepMerge(baseObj.v[key], overrideObj.v[key])
            ELSE [result |-> overrideObj.v[key],
                  mergeCount |-> IF deepEqual(baseObj.v[key], overrideObj.v[key])
                                 THEN 0 ELSE 1]
    IN  [result |-> Obj([key \in Keys |-> at(key).result]),
         mergeCount |-> SumOver([key \in Keys |-> at(key).mergeCount], Keys)]

\* deepMerge of part_000: the merged record alone
RECURSIVE deepMergePlain(_, _)
deepMergePlain(baseObj, overrideObj) ==
    Obj([key \in Keys |->
            IF overrideObj.v[key] = Undefined THEN baseObj.v[key]
            ELSE IF isPlainObject(overrideObj.v[key]) /\ isPlainObject(baseObj.v[key])
            THEN deepMergePlain(baseObj.v[key], overrideObj.v[key])
            ELSE overrideObj.v[key]])

(* ------------------------------ state --------------------------------- *)

VARIABLES
    op,             \* the engine function called directly, "none" before the call
    args,           \* its arguments
    ret,            \* what it returned
    pc,             \* where mergeConfigs (and main around it) stands
    call,           \* mergeConfigs' arguments: caller, baseGiven, n, write, showStats
    idx,            \* number of overrides the loop has merged
    merged,         \* mergeConfigs' merged
    totalBaseKeys,  \* mergeConfigs' totalBaseKeys
    totalMerged,    \* mergeConfigs' totalMerged
    mergeStats,     \* mergeConfigs' mergeStats
    output,         \* the file at outputPath
    err,            \* the error mergeConfigs rejected with
    reported,       \* the statistics printed
    exitCode        \* process.exitCode

engineVars == <<op, args, ret>>

configVars == <<pc, call, idx, merged, totalBaseKeys, totalMerged, mergeStats, output,
                err, reported, exitCode>>

vars == <<op, args, ret, pc, call, idx, merged, totalBaseKeys, totalMerged,
          mergeStats, output, err, reported, exitCode>>

None == [t |-> "none"]

NoCall == [caller |-> "none", baseGiven |-> FALSE, n |-> 0, write |-> FALSE,
           showStats |-> FALSE]

\* the file at outputPath as it was before the call
Unwritten == [t |-> "unwritten"]

NoError == [message |-> "", cause |-> "", source |-> -1]

\* mergeConfigs is not running
ConfigIdle ==
    /\ pc = "idle" /\ call = NoCall /\ idx = 0
    /\ merged = None
    /\ totalBaseKeys = 0 /\ totalMerged = 0 /\ mergeStats = <<>>
    /\ output = Unwritten /\ err = NoError /\ reported = None /\ exitCode = 0

\* no engine function is called directly
EngineIdle == op = "none" /\ args = None /\ ret = None

(* ------------------- direct calls of the engine ----------------------- *)

PairInit ==
    /\ op = "none" /\ ret = None
    /\ \E baseObj \in PairDocs, overrideObj \in PairDocs :
           args = [baseObj |-> baseObj, overrideObj |-> overrideObj]
    /\ ConfigIdle

\* deepMerge(baseObj, overrideObj) of part_001
CallDeepMerge ==
    /\ op = "none" /\ args # None /\ "baseObj" \in DOMAIN args
    /\ op' = "deepMerge"
    /\ ret' = deepMerge(args.baseObj, args.overrideObj)
    /\ UNCHANGED <<args, configVars>>

\* deepMerge(deepMerge(baseObj, overrideObj).result, overrideObj)
CallDeepMergeAgain ==
    /\ op = "none" /\ args # None /\ "baseObj" \in DOMAIN args
    /\ op' = "deepMergeAgain"
    /\ LET first == deepMerge(args.baseObj, args.overrideObj)
       IN  ret' = [first |-> first, second |-> deepMerge(first.result, args.overrideObj)]
    /\ UNCHANGED <<args, configVars>>

\* deepMerge(baseObj, overrideObj) of part_000 beside that of part_001
CallBothDeepMerge ==
    /\ op = "none" /\ args # None /\ "baseObj" \in DOMAIN args
    /\ op' = "bothDeepMerge"
    /\ ret' = [counting |-> deepMerge(args.baseObj, args.overrideObj),
               plain |-> deepMergePlain(args.baseObj, args.overrideObj)]
    /\ UNCHANGED <<args, configVars>>

\* countKeys(overrideObj) beside deepMerge({}, overrideObj)
CallCountKeys ==
    /\ op = "none" /\ args # None /\ "baseObj" \in DOMAIN args
    /\ op' = "countKeys"
    /\ ret' = [keys |-> countKeys(args.overrideObj),
               intoEmpty |-> deepMerge(EmptyObj, args.overrideObj)]
    /\ UNCHANGED <<args, configVars>>

PairNext == CallDeepMerge \/ CallDeepMergeAgain \/ CallBothDeepMerge \/ CallCountKeys

PairSpec == PairInit /\ [][PairNext]_vars

EqInit ==
    /\ op = "none" /\ ret = None
    /\ \E val1 \in EqVals, val2 \in EqVals : args = [val1 |-> val1, val2 |-> val2]
    /\ ConfigIdle

\* deepEqual(val1, val2)
CallDeepEqual ==
    /\ op = "none" /\ args # None /\ "val1" \in DOMAIN args
    /\ op' = "deepEqual"
    /\ ret' = [forth |-> deepEqual(args.val1, args.val2),
               back |-> deepEqual(args.val2, args.val1)]
    /\ UNCHANGED <<args, configVars>>

EqNext == CallDeepEqual

EqSpec == EqInit /\ [][EqNext]_vars

(* --------------------- the fold of mergeConfigs ----------------------- *)

\* the turn of the loop with deepMerge's arguments swapped
applyOverrideKeepsFirst(fold, file, config) ==
    LET mergeResult == deepMerge(config, fold.merged)
    IN  [merged |-> mergeResult.result,
         mergeStats |-> Append(fold.mergeStats,
                               [file |-> file, merged |-> mergeResult.mergeCount]),
         totalMerged |-> fold.totalMerged + mergeResult.mergeCount]

\* One turn of mergeConfigs' loop, from the parsed override on: fold is
\* [merged, mergeStats, totalMerged], file the override's place in the list.
applyOverride(fold, file, config) ==
    LET mergeResult == deepMerge(fold.merged, config)
    IN  [merged |-> mergeResult.result,
         mergeStats |-> Append(fold.mergeStats,
                               [file |-> file, merged |-> mergeResult.mergeCount]),
         totalMerged |-> fold.totalMerged + mergeResult.mergeCount]

\* mergeConfigs' state when the base is parsed
startFold(config) == [merged |-> config, mergeStats |-> <<>>, totalMerged |-> 0]

FoldInit ==
    /\ op = "none" /\ ret = None
    /\ \E A \in FoldDocs, B \in FoldDocs, C \in FoldDocs : args = [A |-> A, B |-> B, C |-> C]
    /\ ConfigIdle

\* the loop of mergeConfigs over the overrides B, C from the base A
CallFold ==
    /\ op = "none" /\ args # None /\ "A" \in DOMAIN args
    /\ op' = "fold"
    /\ LET first == applyOverride(startFold(args.A), 1, args.B)
       IN  ret' = [first |-> first, last |-> applyOverride(first, 2, args.C)]
    /\ UNCHANGED <<args, configVars>>

FoldNext == CallFold

FoldSpec == FoldInit /\ [][FoldNext]_vars

(* ------------------------ mergeConfigs and main ----------------------- *)

\* what a path holds when it is read: no readable file, text that is not
\* JSON, or a document
Missing == [t |-> "missing"]

Malformed == [t |-> "malformed"]

Files == {Missing, Malformed} \cup FileDocs

\* JSON.stringify(merged, null, 2)
stringify(doc) == [t |-> "json", indent |-> 2, doc |-> doc]

\* the errors: message is the prefix the outer catch adds, cause what was
\* thrown, source the path it names (0 the base, i the i-th override)
Fail(message, cause, source) == [message |-> message, cause |-> cause, source |-> source]

Init ==
    /\ EngineIdle
    /\ \E caller \in {"cli", "lib"}, baseGiven \in BOOLEAN, n \in 0..MaxOverrides,
          write \in BOOLEAN, showStats \in BOOLEAN :
           /\ caller = "cli" => write /\ showStats
           /\ call = [caller |-> caller, baseGiven |-> baseGiven, n |-> n,
                      write |-> write, showStats |-> showStats]
           /\ pc = IF caller = "cli" THEN "main" ELSE "call"
    /\ idx = 0 /\ merged = None
    /\ totalBaseKeys = 0 /\ totalMerged = 0 /\ mergeStats = <<>>
    /\ output = Unwritten /\ err = NoError /\ reported = None /\ exitCode = 0

\* main, up to the call of mergeConfigs: usage errors and the files' presence
Main ==
    /\ pc = "main"
    /\ \E present \in SUBSET (0..call.n) :
           IF ~call.baseGiven
           THEN pc' = "exit" /\ exitCode' = 0
           ELSE IF call.n = 0
           THEN pc' = "exit" /\ exitCode' = 2
           ELSE IF present # 0..call.n
           THEN pc' = "exit" /\ exitCode' = 2
           ELSE pc' = "call" /\ exitCode' = 0
    /\ UNCHANGED <<engineVars, call, idx, merged, totalBaseKeys,
                   totalMerged, mergeStats, output, err, reported>>

\* mergeConfigs, up to the first readFile
Call ==
    /\ pc = "call"
    /\ IF ~call.baseGiven
       THEN pc' = "rejected" /\ err' = Fail("", "baseConfigPath is required", -1)
       ELSE IF call.n = 0
       THEN /\ pc' = "rejected"
            /\ err' = Fail("", "At least one overrideConfigPath is required", -1)
       ELSE pc' = "readBase" /\ err' = err
    /\ UNCHANGED <<engineVars, call, idx, merged, totalBaseKeys,
                   totalMerged, mergeStats, output, reported, exitCode>>

\* the statistics, and the return
Finish(fold) ==
    /\ pc' = "returned"
    /\ reported' = IF call.showStats
                   THEN [totalKeys |-> totalBaseKeys,
                         stats |-> fold.mergeStats,
                         totalMerged |-> fold.totalMerged,
                         unchanged |-> totalBaseKeys - fold.totalMerged]
                   ELSE None

\* the base is read and parsed, its keys counted
ReadBase ==
    /\ pc = "readBase"
    /\ \E file \in Files :
           IF file = Missing
           THEN /\ pc' = "rejected"
                /\ err' = Fail("mergeConfigs failed", "readFile", 0)
                /\ UNCHANGED <<merged, totalBaseKeys>>
           ELSE IF file = Malformed
           THEN /\ pc' = "rejected"
                /\ err' = Fail("mergeConfigs failed", "Invalid JSON in base config", 0)
                /\ UNCHANGED <<merged, totalBaseKeys>>
           ELSE /\ merged' = file
                /\ totalBaseKeys' = countKeys(file)
                /\ pc' = "readOverride"
                /\ err' = err
    /\ UNCHANGED <<engineVars, call, idx, totalMerged, mergeStats,
                   output, reported, exitCode>>

\* one turn of the loop: the override is read, parsed and merged
\* the turn writing the output file as soon as it has merged
ReadOverrideWritesEachTurn ==
    /\ pc = "readOverride"
    /\ \E file \in Files :
           IF file = Missing
           THEN /\ pc' = "rejected"
                /\ err' = Fail("mergeConfigs failed", "readFile", idx + 1)
                /\ UNCHANGED <<idx, merged, totalMerged, mergeStats, reported, output>>
           ELSE IF file = Malformed
           THEN /\ pc' = "rejected"
                /\ err' = Fail("mergeConfigs failed", "Invalid JSON in override config",
                               idx + 1)
                /\ UNCHANGED <<idx, merged, totalMerged, mergeStats, reported, output>>
           ELSE LET fold == applyOverride([merged |-> merged, mergeStats |-> mergeStats,
                                           totalMerged |-> totalMerged], idx + 1, file)
                IN  /\ merged' = fold.merged
                    /\ mergeStats' = fold.mergeStats
                    /\ totalMerged' = fold.totalMerged
                    /\ output' = IF call.write THEN stringify(fold.merged) ELSE output
                    /\ idx' = idx + 1
                    /\ err' = err
                    /\ IF idx + 1 < call.n THEN pc' = "readOverride" /\ reported' = reported
                       ELSE IF call.write THEN pc' = "mkdir" /\ reported' = reported
                       ELSE Finish(fold)
    /\ UNCHANGED <<engineVars, call, totalBaseKeys, exitCode>>

ReadOverride ==
    /\ pc = "readOverride"
    /\ \E file \in Files :
           IF file = Missing
           THEN /\ pc' = "rejected"
                /\ err' = Fail("mergeConfigs failed", "readFile", idx + 1)
                /\ UNCHANGED <<idx, merged, totalMerged, mergeStats, reported>>
           ELSE IF file = Malformed
           THEN /\ pc' = "rejected"
                /\ err' = Fail("mergeConfigs failed", "Invalid JSON in override config",
                               idx + 1)
                /\ UNCHANGED <<idx, merged, totalMerged, mergeStats, reported>>
           ELSE LET fold == applyOverride([merged |-> merged, mergeStats |-> mergeStats,
                                           totalMerged |-> totalMerged], idx + 1, file)
                IN  /\ merged' = fold.merged
                    /\ mergeStats' = fold.mergeStats
                    /\ totalMerged' = fold.totalMerged
                    /\ idx' = idx + 1
                    /\ err' = err
                    /\ IF idx + 1 < call.n THEN pc' = "readOverride" /\ reported' = reported
                       ELSE IF call.write THEN pc' = "mkdir" /\ reported' = reported
                       ELSE Finish(fold)
    /\ UNCHANGED <<engineVars, call, totalBaseKeys, output, exitCode>>

\* fs.mkdir of the output's directory
Mkdir ==
    /\ pc = "mkdir"
    /\ \E ok \in BOOLEAN :
           IF ok THEN pc' = "writeFile" /\ err' = err
           ELSE pc' = "rejected" /\ err' = Fail("mergeConfigs failed", "mkdir", -1)
    /\ UNCHANGED <<engineVars, call, idx, merged, totalBaseKeys,
                   totalMerged, mergeStats, output, reported, exitCode>>

\* fs.writeFile of the merged document, then the statistics and the return
WriteFile ==
    /\ pc = "writeFile"
    /\ \E ok \in BOOLEAN :
           IF ok
           THEN /\ output' = stringify(merged)
                /\ err' = err
                /\ Finish([merged |-> merged, mergeStats |-> mergeStats,
                           totalMerged |-> totalMerged])
           ELSE /\ pc' = "rejected"
                /\ err' = Fail("mergeConfigs failed", "writeFile", -1)
                /\ UNCHANGED <<output, reported>>
    /\ UNCHANGED <<engineVars, call, idx, merged, totalBaseKeys,
                   totalMerged, mergeStats, exitCode>>

\* main, after mergeConfigs settled
MainSettled ==
    /\ call.caller = "cli"
    /\ pc \in {"returned", "rejected"}
    /\ exitCode' = IF pc = "rejected" THEN 1 ELSE exitCode
    /\ pc' = "exit"
    /\ UNCHANGED <<engineVars, call, idx, merged, totalBaseKeys,
                   totalMerged, mergeStats, output, err, reported>>

Next == Main \/ Call \/ ReadBase \/ ReadOverride \/ Mkdir \/ WriteFile \/ MainSettled

Spec == Init /\ [][Next]_vars

(* ------------------------------ claims -------------------------------- *)

BothRecords(x, y) == isPlainObject(x) /\ isPlainObject(y)

\* every leaf of c sits at the same path in final
RECURSIVE LeavesWin(_, _)
LeavesWin(final, c) ==
    IF isPlainObject(c)
    THEN isPlainObject(final) /\ \A j \in ObjectKeys(c) : LeavesWin(final.v[j], c.v[j])
    ELSE final = c

EmptyOverrideIdentity ==
    (op = "deepMerge" /\ args.overrideObj = EmptyObj) =>
        ret = [result |-> args.baseObj, mergeCount |-> 0]

EmptyOverrideWitness ==
    /\ op = "deepMerge"
    /\ args.overrideObj = EmptyObj
    /\ \E k \in Keys : /\ isPlainObject(args.baseObj.v[k])
                       /\ ObjectKeys(args.baseObj.v[k]) # {}

\* the fold of the overrides B, C from the base A
FoldFrom(A) ==
    LET first == applyOverride(startFold(A), 1, args.B)
    IN  [first |-> first, last |-> applyOverride(first, 2, args.C)]

\* A with the key j of the record at its key k removed
WithoutNested(A, k, j) == Obj([A.v EXCEPT ![k] = Without(A.v[k], j)])

\* the override X leaves the path k.j alone
LeavesAlone(X, k, j) ==
    \/ X.v[k] = Undefined
    \/ isPlainObject(X.v[k]) /\ X.v[k].v[j] = Undefined

\* C5: a key the base owns and no override so far owns keeps the base's
\* value through the fold, and the per-override counts are those of the
\* fold from the base without it; the same for a key of a record of the
\* base that the overrides' records at that place do not own.
FoldFrame ==
    op = "fold" =>
        /\ \A k \in ObjectKeys(args.A) \ ObjectKeys(args.B) :
               /\ ret.first.merged.v[k] = args.A.v[k]
               /\ ret.first.mergeStats = FoldFrom(Without(args.A, k)).first.mergeStats
        /\ \A k \in ObjectKeys(args.A) \ (ObjectKeys(args.B) \cup ObjectKeys(args.C)) :
               /\ ret.last.merged.v[k] = args.A.v[k]
               /\ ret.last.mergeStats = FoldFrom(Without(args.A, k)).last.mergeStats
        /\ \A k \in ObjectKeys(args.A) :
               isPlainObject(args.A.v[k]) =>
                   \A j \in ObjectKeys(args.A.v[k]) :
                       (LeavesAlone(args.B, k, j) /\ LeavesAlone(args.C, k, j)) =>
                           /\ isPlainObject(ret.last.merged.v[k])
                           /\ ret.last.merged.v[k].v[j] = args.A.v[k].v[j]
                           /\ ret.last.mergeStats =
                                  FoldFrom(WithoutNested(args.A, k, j)).last.mergeStats

FoldFrameWitness ==
    /\ op = "fold"
    /\ \E k \in Keys :
           /\ BothRecords(args.A.v[k], args.B.v[k])
           /\ \E j \in ObjectKeys(args.A.v[k]) :
                  /\ args.B.v[k].v[j] = Undefined
                  /\ ObjectKeys(args.B.v[k]) # {}
                  /\ LeavesAlone(args.C, k, j)
                  /\ ret.last.merged.v[k].v[j] = args.A.v[k].v[j]
    /\ ObjectKeys(args.C) # {}
    /\ ret.last.totalMerged = 2

ReadOrParseFailure ==
    err.cause \in {"readFile", "Invalid JSON in base config",
                   "Invalid JSON in override config"}

UnchangedInRange ==
    reported # None =>
        /\ 0 <= reported.unchanged
        /\ reported.unchanged <= reported.totalKeys

====
